---- MODULE Spec2Model ----
(***************************************************************************)
(* Model of labscript_devices/__init__.py: the decorator registries        *)
(* (ClassRegister), the deferred registries filled by register_classes(),  *)
(* populate_registry() and the two lookup functions get_BLACS_tab() and    *)
(* get_runviewer_parser().                                                 *)
(*                                                                         *)
(* A dotted name "a.b.C" is the sequence <<"a","b","C">> of its            *)
(* components, i.e. what str.split('.') yields.  A Python dict is a        *)
(* function whose DOMAIN is its key set.                                   *)
(***************************************************************************)
EXTENDS Integers, Sequences, FiniteSets, TLC

\* Python's None.  A split dotted string always has at least one component,
\* so the empty sequence is distinct from every class path.
None == <<>>

\* Bound on the number of directory walks followed in one behaviour.
MaxWalks == 2

\* __name__ of the modelled package.
PackageName == "labscript_devices"

(***************************************************************************)
(* The installation the package runs in: device modules, class paths and   *)
(* register_classes.py files.                                              *)
(***************************************************************************)

\* Names callers look up.  "Leg" and "TabOnly" follow the old method (a file
\* <DeviceName>.py at the top level), "New" and "Aux" the new one.
DeviceNames == {"Leg", "TabOnly", "New", "Aux"}

ImplModule == <<"labscript_devices", "newdev", "impl">>

\* Importable modules other than register_classes files.
ExistingModules ==
    { <<"labscript_devices", "Leg">>, <<"labscript_devices", "TabOnly">>, ImplModule }

\* Module-level code of a module: the class definitions it evaluates, each
\* with the registry decorators applied to it.
ModuleBody(m) ==
    IF m = <<"labscript_devices", "Leg">>
      THEN << [cls |-> "LegTab", decorators |-> {"BLACS_tab"}],
              [cls |-> "LegParser", decorators |-> {"runviewer_parser"}] >>
    ELSE IF m = <<"labscript_devices", "TabOnly">>
      THEN << [cls |-> "TabOnlyTab", decorators |-> {"BLACS_tab"}] >>
    ELSE IF m = ImplModule
      THEN << [cls |-> "NewTab", decorators |-> {}],
              [cls |-> "NewParser", decorators |-> {}],
              [cls |-> "AuxTab", decorators |-> {}] >>
    ELSE << >>

\* Fully qualified class paths passed to register_classes().
P_NewTab    == ImplModule \o <<"NewTab">>
P_NewParser == ImplModule \o <<"NewParser">>
P_AuxTab    == ImplModule \o <<"AuxTab">>
P_BadMod    == <<"labscript_devices", "nomod", "GoneTab">>
P_BadAttr   == ImplModule \o <<"Missing">>

\* Subfolders of labscript_devices that may hold a register_classes.py.
Folders == {"newdev", "auxdev", "empty", "fork"}

\* The register_classes() calls made by the register_classes.py of a folder.
\* "fork" registers the device name of "newdev" a second time.
RegisterCallsIn(folder) ==
    IF folder = "newdev"
      THEN << [name |-> "New", tab |-> P_NewTab, parser |-> P_NewParser] >>
    ELSE IF folder = "auxdev"
      THEN << [name |-> "Aux", tab |-> P_AuxTab, parser |-> None] >>
    ELSE IF folder = "fork"
      THEN << [name |-> "New", tab |-> P_AuxTab, parser |-> None] >>
    ELSE << >>

\* Arguments with which code outside the walk calls register_classes().
CallNames   == {"Leg"}
CallTabs    == {P_NewTab, P_BadMod, None}
CallParsers == {P_NewParser, P_BadAttr, None}

\* The installations considered: one whose only register_classes.py registers
\* no device, and one with a register_classes.py per new-style device.
Trees == { {"empty"}, {"newdev", "auxdev"} }

\* The entry-point script, when it has a file; NoFile when __main__ has no
\* __file__ attribute (interactive session).
NoFile == [dir |-> <<>>, root |-> "", ext |-> ""]
MainScript == [dir |-> <<"home", "lab">>, root |-> "MainDev", ext |-> ".py"]
MainModule == <<"__main__">>

(***************************************************************************)
(* State                                                                   *)
(***************************************************************************)
VARIABLES
    BLACS_tab_registry,        \* dict: device name -> class path or None
    runviewer_parser_registry, \* dict: device name -> class path or None
    BLACS_tab,                 \* BLACS_tab.registered_classes
    runviewer_parser,          \* runviewer_parser.registered_classes
    stamp,                     \* labscript_device_class_name of each class carrying one
    sys_modules,               \* modules loaded so far
    execCount,                 \* how often each module's code has run
    walks,                     \* how often the os.walk loop of populate_registry has run
    tree,                      \* folders under labscript_devices holding a register_classes.py
    main_file,                 \* __main__.__file__, or NoFile
    last                       \* the call made last and its outcome

vars == << BLACS_tab_registry, runviewer_parser_registry, BLACS_tab, runviewer_parser,
           stamp, sys_modules, execCount, walks, tree, main_file, last >>

\* The empty dict.
EmptyDict == [k \in {} |-> None]

\* d[k] = v
DictSet(d, k, v) == [x \in (DOMAIN d) \cup {k} |-> IF x = k THEN v ELSE d[x]]


\* A class object: the module whose code defined it, its name, and which
\* execution of that module's code created it (re-executing a module creates
\* new class objects).
ClassObject(m, c, g) == [module |-> m, name |-> c, gen |-> g]
NoClass == ClassObject(<<>>, "", 0)

\* Outcomes of a call.
ReturnClass(c) == [kind |-> "class", cls |-> c, exc |-> ""]
ReturnNone     == [kind |-> "None", cls |-> NoClass, exc |-> ""]
Raise(e)       == [kind |-> "raise", cls |-> NoClass, exc |-> e]

\* Module name under which populate_registry loads the register_classes.py of
\* a folder: the path relative to the install directory ("/labscript_devices/
\* <folder>"), joined with 'register_classes', separators replaced by dots.
RegisterModuleName(folder) == <<"", PackageName, folder, "register_classes">>

AllModules == ExistingModules \cup {RegisterModuleName(f) : f \in Folders}

\* All orders in which a set of folders can be traversed.
Orders(S) ==
    { o \in [1..Cardinality(S) -> S] : \A i, j \in 1..Cardinality(S) : o[i] = o[j] => i = j }

\* The program state as one record, threaded through the calls below.
State ==
    [ tabreg |-> BLACS_tab_registry, parsreg |-> runviewer_parser_registry,
      tabcls |-> BLACS_tab, parscls |-> runviewer_parser, stamp |-> stamp,
      mods |-> sys_modules, exec |-> execCount, walks |-> walks ]

(***************************************************************************)
(* ClassRegister                                                           *)
(***************************************************************************)

\* os.path.splitext(os.path.basename(f))[0]
FileRoot(f) == f.root

\* __call__ that keys the register by the name of the class (cls.__name__).
ClassRegister_call_classname(s, reg, cls, mainfile) ==
    LET s1 == [s EXCEPT !.stamp = DictSet(s.stamp, cls, cls.name)]
    IN  [s |-> IF reg = "BLACS_tab"
                 THEN [s1 EXCEPT !.tabcls = DictSet(s1.tabcls, cls.name, cls)]
                 ELSE [s1 EXCEPT !.parscls = DictSet(s1.parscls, cls.name, cls)],
         ret |-> ReturnClass(cls)]

\* __call__ on registers that share one registered_classes dict (a class
\* attribute instead of one set in __init__).
ClassRegister_call_shared(s, reg, cls, mainfile) ==
    LET modname == cls.module[Len(cls.module)]
        s1 == [s EXCEPT !.stamp = DictSet(s.stamp, cls, modname)]
        add(st, name) ==
            [st EXCEPT !.stamp = DictSet(st.stamp, cls, name),
                       !.tabcls = DictSet(st.tabcls, name, cls),
                       !.parscls = DictSet(st.parscls, name, cls)]
    IN  IF modname = "__main__"
          THEN IF mainfile = NoFile
                 THEN [s |-> s1, ret |-> Raise("RuntimeError")]
                 ELSE [s |-> add(s1, FileRoot(mainfile)), ret |-> ReturnClass(cls)]
          ELSE [s |-> add(s1, modname), ret |-> ReturnClass(cls)]

\* __call__ without the special case for classes of __main__.
ClassRegister_call_nomaincase(s, reg, cls, mainfile) ==
    LET modname == cls.module[Len(cls.module)]
        s1 == [s EXCEPT !.stamp = DictSet(s.stamp, cls, modname)]
    IN  [s |-> IF reg = "BLACS_tab"
                 THEN [s1 EXCEPT !.tabcls = DictSet(s1.tabcls, modname, cls)]
                 ELSE [s1 EXCEPT !.parscls = DictSet(s1.parscls, modname, cls)],
         ret |-> ReturnClass(cls)]

\* ClassRegister.__call__(cls) on the register `reg`.
ClassRegister_call(s, reg, cls, mainfile) ==
    LET modname == cls.module[Len(cls.module)]
        s1 == [s EXCEPT !.stamp = DictSet(s.stamp, cls, modname)]
        add(st, name) ==
            LET st2 == [st EXCEPT !.stamp = DictSet(st.stamp, cls, name)]
            IN  IF reg = "BLACS_tab"
                  THEN [st2 EXCEPT !.tabcls = DictSet(st2.tabcls, name, cls)]
                  ELSE [st2 EXCEPT !.parscls = DictSet(st2.parscls, name, cls)]
    IN  IF modname = "__main__"
          THEN IF mainfile = NoFile
                 THEN [s |-> s1, ret |-> Raise("RuntimeError")]
                 ELSE [s |-> add(s1, FileRoot(mainfile)), ret |-> ReturnClass(cls)]
          ELSE [s |-> add(s1, modname), ret |-> ReturnClass(cls)]

\* Evaluating one class definition of a module: the class is created and each
\* of its registry decorators is applied to it.
ExecClassDef(s, m, def) ==
    LET cls == ClassObject(m, def.cls, s.exec[m])
        s1 == IF "BLACS_tab" \in def.decorators
                THEN ClassRegister_call(s, "BLACS_tab", cls, NoFile).s ELSE s
    IN  IF "runviewer_parser" \in def.decorators
          THEN ClassRegister_call(s1, "runviewer_parser", cls, NoFile).s ELSE s1

RECURSIVE ExecBody(_, _, _, _)
ExecBody(s, m, body, i) ==
    IF i > Len(body) THEN s
    ELSE ExecBody(ExecClassDef(s, m, body[i]), m, body, i + 1)

\* Running the module-level code of m.
ExecModule(s, m) ==
    LET s1 == [s EXCEPT !.mods = @ \cup {m}, !.exec[m] = @ + 1]
    IN  ExecBody(s1, m, ModuleBody(m), 1)

\* import_module without the sys.modules check: every import runs the code again.
import_module_reexec(s, m) ==
    IF m \notin ExistingModules THEN [s |-> s, ret |-> Raise("ImportError")]
    ELSE [s |-> ExecModule(s, m), ret |-> ReturnNone]

\* importlib.import_module(m): a module already in sys.modules is not run again.
import_module(s, m) ==
    IF m \notin ExistingModules THEN [s |-> s, ret |-> Raise("ImportError")]
    ELSE IF m \in s.mods THEN [s |-> s, ret |-> ReturnNone]
    ELSE [s |-> ExecModule(s, m), ret |-> ReturnNone]

\* __getitem__ that reads the register without importing the module first.
ClassRegister_getitem_noimport(s, reg, name) ==
    LET registered == IF reg = "BLACS_tab" THEN s.tabcls ELSE s.parscls
    IN  IF <<PackageName, name>> \notin ExistingModules
          THEN [s |-> s, ret |-> Raise("ImportError")]
        ELSE IF name \in DOMAIN registered
          THEN [s |-> s, ret |-> ReturnClass(registered[name])]
          ELSE [s |-> s, ret |-> Raise("ValueError")]

\* __getitem__ that swallows the ImportError and answers None.
ClassRegister_getitem_swallow(s, reg, name) ==
    LET imp == import_module(s, <<PackageName, name>>)
        registered == IF reg = "BLACS_tab" THEN imp.s.tabcls ELSE imp.s.parscls
    IN  IF imp.ret.kind = "raise" THEN [s |-> imp.s, ret |-> ReturnNone]
        ELSE IF name \in DOMAIN registered
          THEN [s |-> imp.s, ret |-> ReturnClass(registered[name])]
          ELSE [s |-> imp.s, ret |-> Raise("ValueError")]

\* __getitem__ that takes the class out of the register (dict.pop).
ClassRegister_getitem_pop(s, reg, name) ==
    LET imp == import_module(s, <<PackageName, name>>)
        registered == IF reg = "BLACS_tab" THEN imp.s.tabcls ELSE imp.s.parscls
        rest == [k \in (DOMAIN registered) \ {name} |-> registered[k]]
    IN  IF imp.ret.kind = "raise" THEN imp
        ELSE IF name \in DOMAIN registered
          THEN [s |-> IF reg = "BLACS_tab" THEN [imp.s EXCEPT !.tabcls = rest]
                                           ELSE [imp.s EXCEPT !.parscls = rest],
                ret |-> ReturnClass(registered[name])]
          ELSE [s |-> imp.s, ret |-> Raise("ValueError")]

\* __getitem__ that reads the register first and imports the module afterwards.
ClassRegister_getitem_readfirst(s, reg, name) ==
    LET registered == IF reg = "BLACS_tab" THEN s.tabcls ELSE s.parscls
        imp == import_module(s, <<PackageName, name>>)
    IN  IF name \in DOMAIN registered
          THEN [s |-> imp.s, ret |-> ReturnClass(registered[name])]
        ELSE IF imp.ret.kind = "raise" THEN imp
        ELSE [s |-> imp.s, ret |-> Raise("ValueError")]

\* ClassRegister.__getitem__(name) on the register `reg`.
ClassRegister_getitem(s, reg, name) ==
    LET imp == import_module(s, <<PackageName, name>>)
        registered == IF reg = "BLACS_tab" THEN imp.s.tabcls ELSE imp.s.parscls
    IN  IF imp.ret.kind = "raise" THEN imp
        ELSE IF name \in DOMAIN registered
          THEN [s |-> imp.s, ret |-> ReturnClass(registered[name])]
          ELSE [s |-> imp.s, ret |-> Raise("ValueError")]


(***************************************************************************)
(* Deferred registries                                                     *)
(***************************************************************************)

\* getattr(module, class_name): the class the module's code bound to the name.
ModuleHasClass(m, c) == \E i \in 1..Len(ModuleBody(m)) : ModuleBody(m)[i].cls = c

\* _import_class_by_fullname(fullname).  fullname = None has no split().
import_class_by_fullname(s, fullname) ==
    IF fullname = None THEN [s |-> s, ret |-> Raise("AttributeError")]
    ELSE
      LET module_name == SubSeq(fullname, 1, Len(fullname) - 1)
          class_name  == fullname[Len(fullname)]
          imp         == import_module(s, module_name)
      IN  IF imp.ret.kind = "raise" THEN imp
          ELSE IF ModuleHasClass(module_name, class_name)
            THEN [s |-> imp.s,
                  ret |-> ReturnClass(ClassObject(module_name, class_name,
                                                  imp.s.exec[module_name]))]
            ELSE [s |-> imp.s, ret |-> Raise("AttributeError")]

\* register_classes that stores only the paths that are not None.
register_classes_skipnone(s, labscript_device_name, tab, parser) ==
    [s EXCEPT !.tabreg  = IF tab = None THEN @
                          ELSE DictSet(s.tabreg, labscript_device_name, tab),
              !.parsreg = IF parser = None THEN @
                          ELSE DictSet(s.parsreg, labscript_device_name, parser)]

\* register_classes that resolves the two paths when they are registered.
register_classes_resolving(s, labscript_device_name, tab, parser) ==
    LET s1 == import_class_by_fullname(s, tab).s
        s2 == import_class_by_fullname(s1, parser).s
    IN  [s2 EXCEPT !.tabreg  = DictSet(s2.tabreg, labscript_device_name, tab),
                   !.parsreg = DictSet(s2.parsreg, labscript_device_name, parser)]

\* register_classes that stores a parser path only when one is given.
register_classes_parsergiven(s, labscript_device_name, tab, parser) ==
    [s EXCEPT !.tabreg  = DictSet(s.tabreg, labscript_device_name, tab),
              !.parsreg = IF parser = None THEN @
                          ELSE DictSet(s.parsreg, labscript_device_name, parser)]

\* register_classes(labscript_device_name, BLACS_tab, runviewer_parser)
register_classes(s, labscript_device_name, tab, parser) ==
    [s EXCEPT !.tabreg  = DictSet(s.tabreg, labscript_device_name, tab),
              !.parsreg = DictSet(s.parsreg, labscript_device_name, parser)]

RECURSIVE ExecRegisterCalls(_, _, _)
ExecRegisterCalls(s, calls, i) ==
    IF i > Len(calls) THEN s
    ELSE ExecRegisterCalls(
             register_classes(s, calls[i].name, calls[i].tab, calls[i].parser),
             calls, i + 1)

\* imp.load_module(module_name, ...): runs the file's code whether or not a
\* module of that name is already loaded.
load_module(s, module_name, folder) ==
    LET s1 == [s EXCEPT !.mods = @ \cup {module_name}, !.exec[module_name] = @ + 1]
    IN  ExecRegisterCalls(s1, RegisterCallsIn(folder), 1)

\* A walk that stops at the first register_classes.py it loads.
WalkFolders_firstonly(s, order, i) ==
    IF i > Len(order) THEN s
    ELSE load_module(s, RegisterModuleName(order[i]), order[i])

RECURSIVE WalkFolders(_, _, _)
WalkFolders(s, order, i) ==
    IF i > Len(order) THEN s
    ELSE WalkFolders(load_module(s, RegisterModuleName(order[i]), order[i]), order, i + 1)

\* populate_registry(), os.walk yielding the folders in the given order.
populate_registry(s, order) ==
    WalkFolders([s EXCEPT !.walks = @ + 1], order, 1)

\* get_BLACS_tab that prefers a class already in the decorator register.
get_BLACS_tab_legacyfirst(s, name, order) ==
    LET s1 == IF DOMAIN s.tabreg = {} THEN populate_registry(s, order) ELSE s
    IN  IF name \in DOMAIN s1.tabcls
          THEN ClassRegister_getitem(s1, "BLACS_tab", name)
        ELSE IF name \in DOMAIN s1.tabreg
          THEN import_class_by_fullname(s1, s1.tabreg[name])
          ELSE ClassRegister_getitem(s1, "BLACS_tab", name)

\* get_BLACS_tab that falls back on the decorator register when the deferred
\* path does not resolve.
get_BLACS_tab_lenient(s, name, order) ==
    LET s1 == IF DOMAIN s.tabreg = {} THEN populate_registry(s, order) ELSE s
        r  == import_class_by_fullname(s1, s1.tabreg[name])
    IN  IF name \in DOMAIN s1.tabreg /\ r.ret.kind # "raise"
          THEN r
          ELSE ClassRegister_getitem(s1, "BLACS_tab", name)

\* get_BLACS_tab(name)
get_BLACS_tab(s, name, order) ==
    LET s1 == IF DOMAIN s.tabreg = {} THEN populate_registry(s, order) ELSE s
    IN  IF name \in DOMAIN s1.tabreg
          THEN import_class_by_fullname(s1, s1.tabreg[name])
          ELSE ClassRegister_getitem(s1, "BLACS_tab", name)

\* get_runviewer_parser that populates whenever the name is not registered.
get_runviewer_parser_eager(s, name, order) ==
    LET s1 == IF name \notin DOMAIN s.parsreg THEN populate_registry(s, order) ELSE s
    IN  IF name \in DOMAIN s1.parsreg
          THEN import_class_by_fullname(s1, s1.parsreg[name])
          ELSE ClassRegister_getitem(s1, "runviewer_parser", name)

\* get_runviewer_parser(name)
get_runviewer_parser(s, name, order) ==
    LET s1 == IF DOMAIN s.parsreg = {} THEN populate_registry(s, order) ELSE s
    IN  IF name \in DOMAIN s1.parsreg
          THEN import_class_by_fullname(s1, s1.parsreg[name])
          ELSE ClassRegister_getitem(s1, "runviewer_parser", name)

\* A deprecated decorator that still files the class in the tab register and
\* does not warn.
null_decorator_registering(s, cls) ==
    [s |-> ClassRegister_call(s, "BLACS_tab", cls, MainScript).s,
     ret |-> ReturnClass(cls), warned |-> 0]

\* deprecated_decorator(name)(cls): warns and returns cls.
null_decorator(s, cls) == [s |-> s, ret |-> ReturnClass(cls), warned |-> 1]

(***************************************************************************)
(* Actions: one per call the surrounding programs make                     *)
(***************************************************************************)

\* The variables take the values of state record t; the call is recorded.
Becomes(t, op, name, ret, warned) ==
    /\ BLACS_tab_registry' = t.tabreg
    /\ runviewer_parser_registry' = t.parsreg
    /\ BLACS_tab' = t.tabcls
    /\ runviewer_parser' = t.parscls
    /\ stamp' = t.stamp
    /\ sys_modules' = t.mods
    /\ execCount' = t.exec
    /\ walks' = t.walks
    /\ last' = [op |-> op, name |-> name, ret |-> ret,
                walked |-> t.walks - walks,
                executed |-> {m \in AllModules : t.exec[m] > execCount[m]},
                warned |-> warned]
    /\ UNCHANGED << tree, main_file >>

GetBLACSTab(name) ==
    /\ DOMAIN BLACS_tab_registry = {} => walks < MaxWalks
    /\ \E order \in Orders(tree) :
         LET r == get_BLACS_tab(State, name, order)
         IN  Becomes(r.s, "get_BLACS_tab", name, r.ret, 0)

GetRunviewerParser(name) ==
    /\ DOMAIN runviewer_parser_registry = {} => walks < MaxWalks
    /\ \E order \in Orders(tree) :
         LET r == get_runviewer_parser(State, name, order)
         IN  Becomes(r.s, "get_runviewer_parser", name, r.ret, 0)

RegisterClasses(name, tab, parser) ==
    Becomes(register_classes(State, name, tab, parser), "register_classes", name,
            ReturnNone, 0)

PopulateRegistry ==
    /\ walks < MaxWalks
    /\ \E order \in Orders(tree) :
         Becomes(populate_registry(State, order), "populate_registry", "", ReturnNone, 0)

\* Code outside this package imports a device module.
ImportModule(m) ==
    LET r == import_module(State, m)
    IN  Becomes(r.s, "import_module", m[Len(m)], r.ret, 0)

\* The entry-point script defines a class and decorates it with @BLACS_tab or
\* @runviewer_parser.
DecorateMain(reg) ==
    LET c == IF reg = "BLACS_tab" THEN "MainTab" ELSE "MainParser"
        r == ClassRegister_call(State, reg, ClassObject(MainModule, c, 1), main_file)
    IN  Becomes(r.s, reg, c, r.ret, 0)

\* A class is decorated with @labscript_device or @BLACS_worker.
DeprecatedDecorator(name) ==
    LET r == null_decorator(State, ClassObject(MainModule, "MainDevice", 1))
    IN  Becomes(r.s, name, "MainDevice", r.ret, r.warned)

Init ==
    /\ BLACS_tab_registry = EmptyDict
    /\ runviewer_parser_registry = EmptyDict
    /\ BLACS_tab = EmptyDict
    /\ runviewer_parser = EmptyDict
    /\ stamp = EmptyDict
    /\ sys_modules = {}
    /\ execCount = [m \in AllModules |-> 0]
    /\ walks = 0
    /\ tree \in Trees
    /\ main_file \in {NoFile, MainScript}
    /\ last = [op |-> "start", name |-> "", ret |-> ReturnNone, walked |-> 0,
               executed |-> {}, warned |-> 0]

Next ==
    \/ \E name \in DeviceNames : GetBLACSTab(name)
    \/ \E name \in DeviceNames : GetRunviewerParser(name)
    \/ \E name \in CallNames, tab \in CallTabs, parser \in CallParsers :
         RegisterClasses(name, tab, parser)
    \/ PopulateRegistry
    \/ \E m \in ExistingModules : ImportModule(m)
    \/ \E reg \in {"BLACS_tab", "runviewer_parser"} : DecorateMain(reg)
    \/ \E name \in {"labscript_device", "BLACS_worker"} : DeprecatedDecorator(name)

Spec == Init /\ [][Next]_vars


\* The lookup functions called over and over, and nothing else.
LookupNext ==
    \/ \E name \in DeviceNames : GetBLACSTab(name)
    \/ \E name \in DeviceNames : GetRunviewerParser(name)

LookupSpec == Init /\ [][LookupNext]_vars

\* Lookups and walks over any set of register_classes.py files.
WalkInit ==
    /\ BLACS_tab_registry = EmptyDict
    /\ runviewer_parser_registry = EmptyDict
    /\ BLACS_tab = EmptyDict
    /\ runviewer_parser = EmptyDict
    /\ stamp = EmptyDict
    /\ sys_modules = {}
    /\ execCount = [m \in AllModules |-> 0]
    /\ walks = 0
    /\ tree \in SUBSET Folders
    /\ main_file = MainScript
    /\ last = [op |-> "start", name |-> "", ret |-> ReturnNone, walked |-> 0,
               executed |-> {}, warned |-> 0]

WalkNext ==
    \/ PopulateRegistry
    \/ \E name \in DeviceNames : GetBLACSTab(name)
    \/ \E name \in DeviceNames : GetRunviewerParser(name)

WalkSpec == WalkInit /\ [][WalkNext]_vars

(***************************************************************************)
(* Properties                                                              *)
(***************************************************************************)

ModuleOf(path) == SubSeq(path, 1, Len(path) - 1)
ClassNameOf(path) == path[Len(path)]

\* The path names a class of an importable module.
Resolvable(path) ==
    /\ path # None
    /\ ModuleOf(path) \in ExistingModules
    /\ ModuleHasClass(ModuleOf(path), ClassNameOf(path))

\* The class object a module's first execution binds to a name.
FirstClass(m, c) == ClassObject(m, c, 1)

\* The classes the top-level module of a device decorates with a register.
DecoratedIn(name, reg) ==
    { ModuleBody(<<PackageName, name>>)[i].cls :
        i \in { j \in 1..Len(ModuleBody(<<PackageName, name>>)) :
                  reg \in ModuleBody(<<PackageName, name>>)[j].decorators } }

TabLookup    == last.op = "get_BLACS_tab"
ParserLookup == last.op = "get_runviewer_parser"
RegModules   == {RegisterModuleName(f) : f \in Folders}

\* C1: once a device is registered with a None parser path,
\* get_runviewer_parser of it returns None without raising; likewise
\* get_BLACS_tab for a device registered with a None tab path.
C1_NullPathReturnsNone ==
    /\ ( /\ ParserLookup
         /\ last.name \in DOMAIN runviewer_parser_registry
         /\ runviewer_parser_registry[last.name] = None ) => last.ret = ReturnNone
    /\ ( /\ TabLookup
         /\ last.name \in DOMAIN BLACS_tab_registry
         /\ BLACS_tab_registry[last.name] = None ) => last.ret = ReturnNone

\* C2: a device with a resolvable deferred path and a class in the decorator
\* register gets the class at the deferred path, not the decorated class.
C2_DeferredWins ==
    /\ ( /\ TabLookup
         /\ last.name \in DOMAIN BLACS_tab_registry
         /\ Resolvable(BLACS_tab_registry[last.name])
         /\ last.name \in DOMAIN BLACS_tab )
       => /\ last.ret.kind = "class"
          /\ last.ret.cls.module = ModuleOf(BLACS_tab_registry[last.name])
          /\ last.ret.cls.name = ClassNameOf(BLACS_tab_registry[last.name])
          /\ last.ret.cls # BLACS_tab[last.name]
    /\ ( /\ ParserLookup
         /\ last.name \in DOMAIN runviewer_parser_registry
         /\ Resolvable(runviewer_parser_registry[last.name])
         /\ last.name \in DOMAIN runviewer_parser )
       => /\ last.ret.kind = "class"
          /\ last.ret.cls.module = ModuleOf(runviewer_parser_registry[last.name])
          /\ last.ret.cls.name = ClassNameOf(runviewer_parser_registry[last.name])
          /\ last.ret.cls # runviewer_parser[last.name]

C2_Witness ==
    /\ TabLookup /\ last.name = "Leg"
    /\ "Leg" \in DOMAIN BLACS_tab
    /\ "Leg" \in DOMAIN BLACS_tab_registry
    /\ BLACS_tab_registry["Leg"] = P_NewTab
    /\ last.ret = ReturnClass(FirstClass(ImplModule, "NewTab"))

\* C3: a device without deferred entry whose top-level module decorates a
\* class C gets C from the lookup, whether the lookup had to import the module
\* or found it loaded.
C3_LegacyFallback ==
    /\ ( /\ TabLookup
         /\ last.name \notin DOMAIN BLACS_tab_registry
         /\ <<PackageName, last.name>> \in ExistingModules
         /\ DecoratedIn(last.name, "BLACS_tab") # {} )
       => /\ last.ret.kind = "class"
          /\ last.ret.cls.module = <<PackageName, last.name>>
          /\ last.ret.cls.name \in DecoratedIn(last.name, "BLACS_tab")
    /\ ( /\ ParserLookup
         /\ last.name \notin DOMAIN runviewer_parser_registry
         /\ <<PackageName, last.name>> \in ExistingModules
         /\ DecoratedIn(last.name, "runviewer_parser") # {} )
       => /\ last.ret.kind = "class"
          /\ last.ret.cls.module = <<PackageName, last.name>>
          /\ last.ret.cls.name \in DecoratedIn(last.name, "runviewer_parser")

\* The lookup itself imported the module and returned the decorated parser.
C3_Witness ==
    /\ ParserLookup /\ last.name = "Leg"
    /\ "Leg" \notin DOMAIN runviewer_parser_registry
    /\ <<PackageName, "Leg">> \in last.executed
    /\ last.ret = ReturnClass(FirstClass(<<PackageName, "Leg">>, "LegParser"))

\* C4: a name in neither deferred mapping and without top-level module makes
\* both lookups raise; a lookup returns None only for a name whose deferred
\* entry is None.
C4_UnknownNameRaises ==
    /\ ( /\ TabLookup \/ ParserLookup
         /\ last.name \notin DOMAIN BLACS_tab_registry
         /\ last.name \notin DOMAIN runviewer_parser_registry
         /\ <<PackageName, last.name>> \notin ExistingModules )
       => last.ret.kind = "raise"
    /\ (TabLookup /\ last.ret.kind = "None")
       => /\ last.name \in DOMAIN BLACS_tab_registry
          /\ BLACS_tab_registry[last.name] = None
    /\ (ParserLookup /\ last.ret.kind = "None")
       => /\ last.name \in DOMAIN runviewer_parser_registry
          /\ runviewer_parser_registry[last.name] = None

C4_Witness ==
    /\ ParserLookup /\ last.name = "New"
    /\ "New" \notin DOMAIN runviewer_parser_registry
    /\ "New" \notin DOMAIN BLACS_tab_registry
    /\ last.walked = 1
    /\ last.ret = Raise("ImportError")

\* C5: while a deferred mapping is non-empty, no lookup walks the directory
\* tree or runs a register_classes module, and the deferred mappings stay as
\* they are.
C5_NoWalkOnceRegistered ==
    [][ ( /\ last'.op \in {"get_BLACS_tab", "get_runviewer_parser"}
          /\ DOMAIN BLACS_tab_registry # {} \/ DOMAIN runviewer_parser_registry # {} )
        => /\ walks' = walks
           /\ \A m \in RegModules : execCount'[m] = execCount[m]
           /\ BLACS_tab_registry' = BLACS_tab_registry
           /\ runviewer_parser_registry' = runviewer_parser_registry ]_vars

\* A lookup of a name that is not registered, after the one walk.
C5_Witness ==
    /\ ParserLookup /\ last.name = "Leg"
    /\ "Leg" \notin DOMAIN runviewer_parser_registry
    /\ DOMAIN runviewer_parser_registry # {}
    /\ walks = 1 /\ last.walked = 0

\* C6: over any sequence of lookups the directory walk runs at most once.
C6_WalkAtMostOnce == walks <= 1

\* C7: the code of a register_classes module runs at most once, however
\* often populate_registry is called.
C7_RegisterModuleRunsOnce == \A m \in RegModules : execCount[m] <= 1

\* C8: lookups of a device with a resolvable deferred path all return the
\* class object bound by the one execution of the path's module.
C8_ResolvedOnce ==
    /\ \A m \in ExistingModules : execCount[m] <= 1
    /\ ( /\ TabLookup
         /\ last.name \in DOMAIN BLACS_tab_registry
         /\ Resolvable(BLACS_tab_registry[last.name]) )
       => /\ last.ret = ReturnClass(FirstClass(ModuleOf(BLACS_tab_registry[last.name]),
                                               ClassNameOf(BLACS_tab_registry[last.name])))
          /\ execCount[ModuleOf(BLACS_tab_registry[last.name])] = 1
    /\ ( /\ ParserLookup
         /\ last.name \in DOMAIN runviewer_parser_registry
         /\ Resolvable(runviewer_parser_registry[last.name]) )
       => /\ last.ret = ReturnClass(FirstClass(ModuleOf(runviewer_parser_registry[last.name]),
                                               ClassNameOf(runviewer_parser_registry[last.name])))
          /\ execCount[ModuleOf(runviewer_parser_registry[last.name])] = 1

\* A repeated lookup: the module was loaded before this call.
C8_Witness ==
    /\ TabLookup /\ last.name = "New"
    /\ "New" \in DOMAIN BLACS_tab_registry
    /\ BLACS_tab_registry["New"] = P_NewTab
    /\ last.executed = {}
    /\ last.ret = ReturnClass(FirstClass(ImplModule, "NewTab"))

\* C9: register_classes(d, t, p) leaves d -> t and d -> p in the two
\* mappings, None included, and every other entry as it was.
C9_RegisterOverwrites ==
    [][ \A d \in CallNames, t \in CallTabs, p \in CallParsers :
          RegisterClasses(d, t, p)
          => /\ DOMAIN BLACS_tab_registry' = DOMAIN BLACS_tab_registry \cup {d}
             /\ DOMAIN runviewer_parser_registry' = DOMAIN runviewer_parser_registry \cup {d}
             /\ BLACS_tab_registry'[d] = t
             /\ runviewer_parser_registry'[d] = p
             /\ \A o \in DOMAIN BLACS_tab_registry \ {d} :
                  BLACS_tab_registry'[o] = BLACS_tab_registry[o]
             /\ \A o \in DOMAIN runviewer_parser_registry \ {d} :
                  runviewer_parser_registry'[o] = runviewer_parser_registry[o] ]_vars

C9_Witness ==
    /\ last.op = "register_classes" /\ last.name = "Leg"
    /\ DOMAIN BLACS_tab_registry = {"Leg", "New", "Aux"}
    /\ BLACS_tab_registry["Leg"] = None
    /\ runviewer_parser_registry["Leg"] = None
    /\ BLACS_tab_registry["New"] = P_NewTab
    /\ runviewer_parser_registry["Aux"] = None

\* C10: no step removes a key from any of the four registries.
C10_KeysOnlyGrow ==
    [][ /\ DOMAIN BLACS_tab \subseteq DOMAIN BLACS_tab'
        /\ DOMAIN runviewer_parser \subseteq DOMAIN runviewer_parser'
        /\ DOMAIN BLACS_tab_registry \subseteq DOMAIN BLACS_tab_registry'
        /\ DOMAIN runviewer_parser_registry \subseteq DOMAIN runviewer_parser_registry' ]_vars

\* A failed lookup with entries in all four registries.
C10_Witness ==
    /\ TabLookup /\ last.ret.kind = "raise"
    /\ DOMAIN BLACS_tab # {} /\ DOMAIN runviewer_parser # {}
    /\ DOMAIN BLACS_tab_registry # {} /\ DOMAIN runviewer_parser_registry # {}

\* The device names a folder's register_classes.py registers.
NamesIn(folder) ==
    { RegisterCallsIn(folder)[i].name : i \in 1..Len(RegisterCallsIn(folder)) }

DisjointNames(T) == \A f, g \in T : f # g => NamesIn(f) \cap NamesIn(g) = {}

\* C11: when the register_classes.py files register pairwise disjoint device
\* names, the deferred mappings after a walk are those every traversal order
\* of the folders produces.
C11_OrderIndependent ==
    [][ (last'.walked = 1 /\ DisjointNames(tree))
        => \A o \in Orders(tree) :
             /\ populate_registry(State, o).tabreg = BLACS_tab_registry'
             /\ populate_registry(State, o).parsreg = runviewer_parser_registry' ]_vars

C11_Witness ==
    /\ last.op = "populate_registry" /\ last.walked = 1
    /\ tree = {"newdev", "auxdev", "empty"}
    /\ walks = 1
    /\ DOMAIN BLACS_tab_registry = {"New", "Aux"}
    /\ BLACS_tab_registry["New"] = P_NewTab
    /\ runviewer_parser_registry["Aux"] = None

\* cls.__module__.split('.')[-1]
ShortName(m) == m[Len(m)]

\* C12 as stated: every entry k -> C of a decorator register has k the short
\* name of the module defining C, and C carries the stamp k.
C12_KeyIsModuleShortName ==
    /\ \A k \in DOMAIN BLACS_tab :
         /\ k = ShortName(BLACS_tab[k].module)
         /\ BLACS_tab[k] \in DOMAIN stamp /\ stamp[BLACS_tab[k]] = k
    /\ \A k \in DOMAIN runviewer_parser :
         /\ k = ShortName(runviewer_parser[k].module)
         /\ runviewer_parser[k] \in DOMAIN stamp /\ stamp[runviewer_parser[k]] = k

\* The key under which ClassRegister files a class of module m.
DeviceNameOf(m) == IF m = MainModule THEN FileRoot(main_file) ELSE ShortName(m)

\* C12 (amended): every entry k -> C of a decorator register has k the short
\* name of the module defining C, or the root of the entry point's file name
\* when C is defined in __main__, and C carries the stamp k; a fallback lookup
\* of a name returns a class stamped with that name.
C12_KeyIsDeviceName ==
    /\ \A k \in DOMAIN BLACS_tab :
         /\ k = DeviceNameOf(BLACS_tab[k].module)
         /\ BLACS_tab[k].module = MainModule => main_file # NoFile
         /\ BLACS_tab[k] \in DOMAIN stamp /\ stamp[BLACS_tab[k]] = k
    /\ \A k \in DOMAIN runviewer_parser :
         /\ k = DeviceNameOf(runviewer_parser[k].module)
         /\ runviewer_parser[k].module = MainModule => main_file # NoFile
         /\ runviewer_parser[k] \in DOMAIN stamp /\ stamp[runviewer_parser[k]] = k
    /\ ( /\ TabLookup /\ last.ret.kind = "class"
         /\ last.name \notin DOMAIN BLACS_tab_registry )
       => /\ stamp[last.ret.cls] = last.name
          /\ ShortName(last.ret.cls.module) = last.name
    /\ ( /\ ParserLookup /\ last.ret.kind = "class"
         /\ last.name \notin DOMAIN runviewer_parser_registry )
       => /\ stamp[last.ret.cls] = last.name
          /\ ShortName(last.ret.cls.module) = last.name

\* Classes of two device modules and of the entry point are registered, and
\* a lookup of one of the two modules has just answered.
C12_Witness ==
    /\ DOMAIN BLACS_tab = {"Leg", "TabOnly", "MainDev"}
    /\ TabLookup /\ last.name = "TabOnly"
    /\ last.ret = ReturnClass(FirstClass(<<PackageName, "TabOnly">>, "TabOnlyTab"))

DeprecatedNames == {"labscript_device", "BLACS_worker"}

\* C13: applying @labscript_device or @BLACS_worker returns the class it was
\* given, emits exactly one warning and leaves the four registries unchanged.
C13_DeprecatedIsNoOp ==
    [][ last'.op \in DeprecatedNames
        => /\ last'.ret = ReturnClass(ClassObject(MainModule, "MainDevice", 1))
           /\ last'.warned = 1
           /\ BLACS_tab' = BLACS_tab
           /\ runviewer_parser' = runviewer_parser
           /\ BLACS_tab_registry' = BLACS_tab_registry
           /\ runviewer_parser_registry' = runviewer_parser_registry
           /\ stamp' = stamp ]_vars

C13_Witness ==
    /\ last.op = "BLACS_worker" /\ last.warned = 1
    /\ last.ret.kind = "class" /\ last.ret.cls.name = "MainDevice"
    /\ DOMAIN BLACS_tab # {} /\ DOMAIN BLACS_tab_registry # {}
    /\ "MainDevice" \notin DOMAIN BLACS_tab

\* The class was defined with the decorator of the register `reg`.
DecoratedWith(cls, reg) ==
    IF cls.module = MainModule
      THEN cls.name = (IF reg = "BLACS_tab" THEN "MainTab" ELSE "MainParser")
      ELSE /\ cls.module \in ExistingModules
           /\ \E i \in 1..Len(ModuleBody(cls.module)) :
                /\ ModuleBody(cls.module)[i].cls = cls.name
                /\ reg \in ModuleBody(cls.module)[i].decorators

\* C14: each decorator register holds only classes its own decorator was
\* applied to, so get_runviewer_parser of an old-method device whose module
\* decorates only a tab class raises instead of returning the tab class (and
\* likewise for get_BLACS_tab and a parser-only module).
C14_RegistersIndependent ==
    /\ \A k \in DOMAIN BLACS_tab : DecoratedWith(BLACS_tab[k], "BLACS_tab")
    /\ \A k \in DOMAIN runviewer_parser :
         DecoratedWith(runviewer_parser[k], "runviewer_parser")
    /\ ( /\ ParserLookup
         /\ last.name \notin DOMAIN runviewer_parser_registry
         /\ <<PackageName, last.name>> \in ExistingModules
         /\ DecoratedIn(last.name, "runviewer_parser") = {} )
       => last.ret = Raise("ValueError")
    /\ ( /\ TabLookup
         /\ last.name \notin DOMAIN BLACS_tab_registry
         /\ <<PackageName, last.name>> \in ExistingModules
         /\ DecoratedIn(last.name, "BLACS_tab") = {} )
       => last.ret = Raise("ValueError")

\* The tab class of "TabOnly" is registered and the parser lookup fails.
C14_Witness ==
    /\ ParserLookup /\ last.name = "TabOnly"
    /\ "TabOnly" \in DOMAIN BLACS_tab
    /\ "TabOnly" \notin DOMAIN runviewer_parser
    /\ last.executed = {}
    /\ last.ret = Raise("ValueError")

\* C15: a decorator-register lookup of a name imports the module of that name
\* and then reads the register: with the module imported it returns the class
\* registered under the name, or raises ValueError when there is none; when
\* the import fails, ImportError reaches the caller and both registers are
\* unchanged.
C15_ImportThenRead ==
    [][ /\ ( /\ last'.op = "get_BLACS_tab"
             /\ last'.name \notin DOMAIN BLACS_tab_registry' )
           => IF <<PackageName, last'.name>> \notin ExistingModules
                THEN /\ last'.ret = Raise("ImportError")
                     /\ BLACS_tab' = BLACS_tab
                     /\ runviewer_parser' = runviewer_parser
                ELSE /\ <<PackageName, last'.name>> \in sys_modules'
                     /\ last'.ret = IF last'.name \in DOMAIN BLACS_tab'
                                      THEN ReturnClass(BLACS_tab'[last'.name])
                                      ELSE Raise("ValueError")
        /\ ( /\ last'.op = "get_runviewer_parser"
             /\ last'.name \notin DOMAIN runviewer_parser_registry' )
           => IF <<PackageName, last'.name>> \notin ExistingModules
                THEN /\ last'.ret = Raise("ImportError")
                     /\ BLACS_tab' = BLACS_tab
                     /\ runviewer_parser' = runviewer_parser
                ELSE /\ <<PackageName, last'.name>> \in sys_modules'
                     /\ last'.ret = IF last'.name \in DOMAIN runviewer_parser'
                                      THEN ReturnClass(runviewer_parser'[last'.name])
                                      ELSE Raise("ValueError") ]_vars

\* The lookup imported "TabOnly", whose code registers no parser, while a
\* parser of another module is registered.
C15_Witness ==
    /\ ParserLookup /\ last.name = "TabOnly"
    /\ <<PackageName, "TabOnly">> \in last.executed
    /\ "Leg" \in DOMAIN runviewer_parser
    /\ last.ret = Raise("ValueError")

\* C16: register_classes and populate_registry import no device or class
\* module and accept any path; a lookup runs the code of a module only if the
\* deferred entry of the looked-up name names that module, or, the name having
\* no deferred entry, it is the top-level module of that name.
C16_ImportDeferredToLookup ==
    [][ /\ last'.op \in {"register_classes", "populate_registry"}
           => /\ last'.ret = ReturnNone
              /\ sys_modules' \cap ExistingModules = sys_modules \cap ExistingModules
              /\ \A m \in ExistingModules : execCount'[m] = execCount[m]
        /\ last'.op = "get_BLACS_tab"
           => \A m \in ExistingModules :
                execCount'[m] # execCount[m]
                => IF last'.name \in DOMAIN BLACS_tab_registry'
                     THEN /\ BLACS_tab_registry'[last'.name] # None
                          /\ m = ModuleOf(BLACS_tab_registry'[last'.name])
                     ELSE m = <<PackageName, last'.name>>
        /\ last'.op = "get_runviewer_parser"
           => \A m \in ExistingModules :
                execCount'[m] # execCount[m]
                => IF last'.name \in DOMAIN runviewer_parser_registry'
                     THEN /\ runviewer_parser_registry'[last'.name] # None
                          /\ m = ModuleOf(runviewer_parser_registry'[last'.name])
                     ELSE m = <<PackageName, last'.name>> ]_vars

\* Paths are registered, one of them unresolvable, and the module they name is
\* not loaded.
C16_Witness ==
    /\ last.op = "register_classes" /\ last.ret = ReturnNone
    /\ "Leg" \in DOMAIN BLACS_tab_registry
    /\ BLACS_tab_registry["Leg"] = P_BadMod
    /\ runviewer_parser_registry["Leg"] = P_NewParser
    /\ "New" \in DOMAIN BLACS_tab_registry
    /\ ImplModule \notin sys_modules

\* What resolving a path that is not None ends in when it cannot be resolved.
ResolutionFailure(path) ==
    IF ModuleOf(path) \notin ExistingModules THEN Raise("ImportError")
    ELSE Raise("AttributeError")

\* C17: a lookup of a name whose deferred path does not resolve raises the
\* resolution's ImportError or AttributeError, also when a decorated class is
\* registered under the name; a lookup of a name with a deferred entry never
\* imports the name's top-level module nor returns a class of another module
\* than the one the entry names.
C17_NoFallbackOnBadPath ==
    /\ ( TabLookup /\ last.name \in DOMAIN BLACS_tab_registry )
       => /\ <<PackageName, last.name>> \notin last.executed
          /\ last.ret.kind = "class"
             => last.ret.cls.module = ModuleOf(BLACS_tab_registry[last.name])
          /\ ( /\ BLACS_tab_registry[last.name] # None
               /\ ~ Resolvable(BLACS_tab_registry[last.name]) )
             => last.ret = ResolutionFailure(BLACS_tab_registry[last.name])
    /\ ( ParserLookup /\ last.name \in DOMAIN runviewer_parser_registry )
       => /\ <<PackageName, last.name>> \notin last.executed
          /\ last.ret.kind = "class"
             => last.ret.cls.module = ModuleOf(runviewer_parser_registry[last.name])
          /\ ( /\ runviewer_parser_registry[last.name] # None
               /\ ~ Resolvable(runviewer_parser_registry[last.name]) )
             => last.ret = ResolutionFailure(runviewer_parser_registry[last.name])

\* The path's module is missing while a decorated tab class of the name exists.
C17_Witness ==
    /\ TabLookup /\ last.name = "Leg"
    /\ "Leg" \in DOMAIN BLACS_tab
    /\ "Leg" \in DOMAIN BLACS_tab_registry
    /\ BLACS_tab_registry["Leg"] = P_BadMod
    /\ last.ret = Raise("ImportError")

\* C18: the two deferred mappings always have the same keys, so the emptiness
\* tests of the two lookup functions agree; a lookup of either kind walks only
\* when nothing was registered before, leaving in both mappings exactly the
\* names the walked files register.
C18_SameKeys ==
    /\ DOMAIN BLACS_tab_registry = DOMAIN runviewer_parser_registry
    /\ (TabLookup \/ ParserLookup) /\ last.walked = 1
       => /\ DOMAIN BLACS_tab_registry = UNION {NamesIn(f) : f \in tree}
          /\ DOMAIN runviewer_parser_registry = UNION {NamesIn(f) : f \in tree}

\* Keys registered with a None parser and with a None tab; the walk ran once
\* and this lookup did not repeat it.
C18_Witness ==
    /\ DOMAIN runviewer_parser_registry = {"Leg", "New", "Aux"}
    /\ runviewer_parser_registry["Aux"] = None
    /\ BLACS_tab_registry["Leg"] = None
    /\ ParserLookup /\ last.walked = 0 /\ walks = 1

RegistryDecorators == {"BLACS_tab", "runviewer_parser"}

\* C19: decorating a class of __main__ when __main__ has no file raises
\* RuntimeError and leaves both registers unchanged; when it has a file, the
\* class is registered under the file's base name without extension; no
\* register ever has the key '__main__'.
C19_MainNeedsFile ==
    [][ last'.op \in RegistryDecorators
        => /\ "__main__" \notin DOMAIN BLACS_tab' \cup DOMAIN runviewer_parser'
           /\ IF main_file = NoFile
                THEN /\ last'.ret = Raise("RuntimeError")
                     /\ BLACS_tab' = BLACS_tab
                     /\ runviewer_parser' = runviewer_parser
                ELSE /\ last'.ret.kind = "class"
                     /\ last'.ret.cls.module = MainModule
                     /\ IF last'.op = "BLACS_tab"
                          THEN /\ BLACS_tab' = DictSet(BLACS_tab, "MainDev", last'.ret.cls)
                               /\ runviewer_parser' = runviewer_parser
                          ELSE /\ runviewer_parser' =
                                    DictSet(runviewer_parser, "MainDev", last'.ret.cls)
                               /\ BLACS_tab' = BLACS_tab ]_vars

\* The decoration failed for want of a file; other classes are registered.
C19_Witness ==
    /\ last.op = "BLACS_tab" /\ main_file = NoFile
    /\ last.ret = Raise("RuntimeError")
    /\ DOMAIN BLACS_tab = {"Leg", "TabOnly"}

====
